---- MODULE Spec2Model ----
(***************************************************************************)
(* The proximity presence engine of AIIIR_bot.                             *)
(*                                                                         *)
(* The repository holds two storage layers: class DB of bot.py (sqlite,    *)
(* the one the handlers of bot.py use) and class Database of db.py         *)
(* (asyncpg / Postgres, with no caller among the sources).  A run of the   *)
(* model is a run of one of them: backend = "sqlite" runs the handlers of  *)
(* bot.py over DB, backend = "postgres" runs the methods of Database.      *)
(*                                                                         *)
(* Time is counted in whole minutes from the start of the run.  Latitude   *)
(* and longitude are in micro-degrees.  Distances are in millimetres.      *)
(*                                                                         *)
(* Of bot.py's tables the model keeps users, air_sessions, daily_limits,   *)
(* plans, subscriptions and the counters on_location writes.  The events   *)
(* log is written and never read.                                          *)
(*                                                                         *)
(* on_location runs as a coroutine: it gives up control only at its        *)
(* awaits (the replies to the sender, each bot.send_message), and every    *)
(* call of DB is one sqlite transaction.  An action of the model is the    *)
(* code between two awaits.                                                *)
(*                                                                         *)
(* Five specifications share the actions.  Spec starts on an empty         *)
(* database, of either storage layer, and lets the clock run.  SpecCrowd   *)
(* starts bot.py on a database that already holds the sessions of a crowd  *)
(* and handles the updates one after another.  SpecPair starts bot.py on a *)
(* database in which both actors have a session, handles their updates     *)
(* concurrently, and admits a radius of 0 and a latitude beyond the pole.  *)
(* SpecPlans adds the admin's /grant_airplus to the location updates and   *)
(* the clock.  SpecProfile starts bot.py on a database with no user in it  *)
(* and adds the profile dialogue: /start, the name, the marker, the        *)
(* change of marker.  In the first three nobody is granted a plan and the  *)
(* profiles are as the database file has them.                             *)
(***************************************************************************)
EXTENDS Integers, Sequences, FiniteSets, TLC

\* ----------------------------------------------------------------- bounds
NumCrowd == 25        \* users whose rows are already stored when the bot starts
MaxTime == 2          \* the clock stops here
MaxSubmissions == 2   \* accepted location submissions in a run
Midnight == 2         \* the minute at which the UTC date changes

\* ------------------------------------------------------ program constants
SHOW_LIMIT == 10      \* bot.py:734  nearby[:10]
NOTIFY_LIMIT == 25    \* bot.py:751  nearby[:25]
PREMIUM_RADIUS_M == 800    \* bot.py:49  the value when the environment gives none
PREMIUM_DAILY_PINGS == 2   \* bot.py:50  the environment gives 2 (30 when it gives none)

\* SQL NULL / Python None in a text column
NULL == "NULL"
\* Optional values that are not text: None, and a value v
None == <<>>
Some(v) == <<v>>

\* the users that send updates during the run
Actors == {1, 2}
Crowd == {u \in 1..(Cardinality(Actors) + NumCrowd) : u \notin Actors}
Users == Actors \cup Crowd
\* a Telegram user that never ran /start: no row in users
Stranger == Cardinality(Users) + 1
Senders == Actors \cup {Stranger}
\* the users whose chat the transport may fail to reach: an actor and one of the crowd
Unreliable == {u \in Users : u > 1 /\ u <= Cardinality(Actors) + 1}
\* the on_location coroutines that may be in flight at once
Slots == {1, 2}

Times == 0..MaxTime
\* the values the deployment's environment may give AIR_RADIUS_M, AIR_TTL_MINUTES
\* and FREE_DAILY_PINGS (200, 0 and 5 when it gives none)
RadiusChoices == {199, 200}
TtlChoices == {0, 1}
PingChoices == {1, 5}
\* the coordinates a location message may carry: <<lat, lon>>
Coords == {<<0, 0>>, <<0, 1800>>, <<1800, 1800>>}
Backends == {"sqlite", "postgres"}
\* the user the admin grants AIR+ to, and for how many days
Granted == {1}
GrantDays == {0, 1}
\* where the actors stand in the runs about plans and profiles
PlanCoords == {<<0, 0>>}
\* the text of cancel_kb's button, "<- Otmena" standing for the arrow and the
\* Cyrillic word of line 119
CancelText == "<- Otmena"
\* the texts a message may carry; "" is a message with no text (a location, a photo)
MessageTexts == {" Al ", " x", "red  hat", CancelText, ""}
\* a second deployment: AIR_RADIUS_M set to 0, and location messages that carry
\* the pole or a latitude 0.0018 degrees beyond it
PairRadiusChoices == {0, 200}
Pole == <<90000000, 0>>
PairCoords == {Pole, <<90001800, 0>>}

VARIABLES
    backend,               \* which storage layer this run is of
    now,                   \* the clock: now_utc() / NOW()
    AIR_RADIUS_M_DEFAULT,  \* bot.py:43
    AIR_TTL_MINUTES,       \* bot.py:44
    FREE_DAILY_PINGS,      \* bot.py:51
    subscriptions,         \* bot.py table subscriptions: rows [user_id, plan_id, until_at, created_at]
    fsm,                   \* the FSM state of each sender's chat (ProfileState, or "none")
    pending,               \* the senders whose handler has replied and has yet to
                           \* set_state(ProfileState.waiting_name)
    users,                 \* bot.py table users: rows [user_id, name, marker]
    air_sessions,          \* bot.py table air_sessions: rows [user_id, lat, lon, updated_at]
    daily_limits,          \* bot.py table daily_limits: rows [ymd, user_id, key, value]
    counters,              \* bot.py table counters: key -> value
    tasks,                 \* the on_location coroutines in flight
    outbox,                \* every bot.send_message the dispatch loop made
    nsub,                  \* accepted submissions so far (names a submission)
    pg_users,              \* db.py table users: set of user_id
    pg_sessions,           \* db.py table sessions: rows [user_id, lat, lon, updated_at, active_until]
    stopped,               \* db.py: the users set inactive and not upserted since, each
                           \* with what set_session_inactive found: [user_id, found]
    revived                \* db.py: what the step just taken did, when it was an
                           \* upsert_session that came after the user's session was set
                           \* inactive or had expired: [user_id, after, lat, lon]

vars == <<backend, now, AIR_RADIUS_M_DEFAULT, AIR_TTL_MINUTES, FREE_DAILY_PINGS, subscriptions,
          fsm, pending, users, air_sessions, daily_limits, counters, tasks, outbox, nsub,
          pg_users, pg_sessions, stopped, revived>>

\* what neither on_location nor a method of Database writes: the environment, the
\* plans granted and the profile dialogues
cfgVars == <<backend, AIR_RADIUS_M_DEFAULT, AIR_TTL_MINUTES, FREE_DAILY_PINGS, subscriptions,
             fsm, pending>>
pgVars == <<pg_users, pg_sessions, stopped, revived>>
botVars == <<users, air_sessions, daily_limits, counters, tasks, outbox, nsub>>

\* ------------------------------------------------------------------ utils
Min(a, b) == IF a <= b THEN a ELSE b

\* iso(dt): the text stored in updated_at; datetime.fromisoformat reads it back
iso(t) == <<"iso", t>>

fromisoformat(s) == s[2]

\* clamp_text on the texts of the model: the ends stripped, every run of
\* whitespace turned into one space
clamp_text(s) ==
    CASE s = " Al " -> "Al"
      [] s = " x" -> "x"
      [] s = "red  hat" -> "red hat"
      [] OTHER -> s

valid_name(s) == LET c == clamp_text(s) IN 2 <= Len(c) /\ Len(c) <= 20

valid_marker(s) == LET c == clamp_text(s) IN 2 <= Len(c) /\ Len(c) <= 40

\* today_ymd(): the UTC date of a moment
today_ymd(t) == IF t < Midnight THEN 0 ELSE 1

\* haversine_m on the coordinates of the model, in millimetres: the values
\* bot.py's haversine_m returns for these points (R = 6371000.0), times 1000
\* and rounded.
HaversineTable(dlat, dlon) ==
    CASE dlat = 0 /\ dlon = 0 -> 0
      [] dlat = 0 /\ dlon = 7 -> 778
      [] dlat = 0 /\ dlon = 1800 -> 200151
      [] dlat = 0 /\ dlon = 1807 -> 200929
      [] dlat = 1800 /\ dlon = 7 -> 200152
      [] dlat = 1800 /\ dlon = 0 -> 200151
      [] dlat = 1800 /\ dlon = 1800 -> 283056

Abs(x) == IF x < 0 THEN -x ELSE x

haversine_mm(lat1, lon1, lat2, lon2) == HaversineTable(Abs(lat2 - lat1), Abs(lon2 - lon1))

\* int(x) of a non-negative float given in thousandths: truncation
int(mm) == mm \div 1000

\* --------------------------------------------------- class DB (bot.py)
\* DB.get_user: the row of user_id, or None
get_user(user_id) ==
    IF \E r \in users : r.user_id = user_id
    THEN Some(CHOOSE r \in users : r.user_id = user_id)
    ELSE None

\* bool(s) of an Optional[str]: None and the empty string are false
truthy(s) == s # NULL /\ s # ""

\* profile_complete as bool(u and u[1]): the marker is not looked at
profile_complete_name_only(user_id) ==
    LET u == get_user(user_id)
    IN  u # None /\ truthy(u[1].name)

\* DB.profile_complete: bool(u and u[1] and u[2])
profile_complete(user_id) ==
    LET u == get_user(user_id)
    IN  u # None /\ truthy(u[1].name) /\ truthy(u[1].marker)

\* upsert_user whose UPDATE writes the marker as it comes, None included
upsert_user_resets_marker(rows, user_id, name, marker) ==
    IF \A r \in rows : r.user_id # user_id
    THEN rows \cup {[user_id |-> user_id, name |-> name, marker |-> marker]}
    ELSE LET existing == CHOOSE r \in rows : r.user_id = user_id
         IN  {r \in rows : r.user_id # user_id}
                 \cup {[user_id |-> user_id,
                        name |-> IF name # NULL THEN name ELSE existing.name,
                        marker |-> marker]}

\* DB.upsert_user: INSERT when the user has no row, else UPDATE with every
\* argument that is None replaced by the stored value
upsert_user(rows, user_id, name, marker) ==
    IF \A r \in rows : r.user_id # user_id
    THEN rows \cup {[user_id |-> user_id, name |-> name, marker |-> marker]}
    ELSE LET existing == CHOOSE r \in rows : r.user_id = user_id
         IN  {r \in rows : r.user_id # user_id}
                 \cup {[user_id |-> user_id,
                        name |-> IF name # NULL THEN name ELSE existing.name,
                        marker |-> IF marker # NULL THEN marker ELSE existing.marker]}

\* table plans as DB._init seeds it: plan_id -> (radius_m, daily_pings)
plans(plan_id) ==
    IF plan_id = "air_plus"
    THEN [plan_id |-> "air_plus", radius_m |-> PREMIUM_RADIUS_M,
          daily_pings |-> PREMIUM_DAILY_PINGS]
    ELSE [plan_id |-> "free", radius_m |-> AIR_RADIUS_M_DEFAULT,
          daily_pings |-> FREE_DAILY_PINGS]

\* DB.get_plan_for_user: (plan_id, title, radius_m, daily_pings): the plan of the
\* user's subscription when it has no end or its end is not before now_utc(),
\* else the plan "free"
get_plan_for_user(user_id) ==
    IF \E sub \in subscriptions :
           /\ sub.user_id = user_id
           /\ (sub.until_at = None \/ sub.until_at[1] >= now)
    THEN plans((CHOOSE sub \in subscriptions : sub.user_id = user_id).plan_id)
    ELSE plans("free")

\* DB.set_subscription: INSERT ... ON CONFLICT(user_id) DO UPDATE SET plan_id,
\* until_at, updated_at; created_at stays as the first grant wrote it
set_subscription(rows, user_id, plan_id, until_at, t) ==
    {r \in rows : r.user_id # user_id}
        \cup {[user_id |-> user_id, plan_id |-> plan_id, until_at |-> until_at,
               created_at |-> IF \E r \in rows : r.user_id = user_id
                              THEN (CHOOSE r \in rows : r.user_id = user_id).created_at
                              ELSE t]}

\* DB.get_daily: the value of the row, 0 without one
get_daily(ymd, user_id, key) ==
    IF \E r \in daily_limits : r.ymd = ymd /\ r.user_id = user_id /\ r.key = key
    THEN (CHOOSE r \in daily_limits : r.ymd = ymd /\ r.user_id = user_id /\ r.key = key).value
    ELSE 0

\* DB.inc_daily: INSERT ... ON CONFLICT(ymd, user_id, key) DO UPDATE SET value = value + by
inc_daily(ymd, user_id, key, by) ==
    {r \in daily_limits : ~(r.ymd = ymd /\ r.user_id = user_id /\ r.key = key)}
        \cup {[ymd |-> ymd, user_id |-> user_id, key |-> key,
               value |-> get_daily(ymd, user_id, key) + by]}

\* DB.inc: UPDATE counters SET value = value + by WHERE key = key
inc(cs, key, by) == [cs EXCEPT ![key] = @ + by]

\* upsert_air_location as a plain INSERT into a table without the primary key
upsert_air_location_insert(rows, user_id, lat, lon, t) ==
    rows \cup {[user_id |-> user_id, lat |-> lat, lon |-> lon, updated_at |-> iso(t)]}

\* upsert_air_location with ON CONFLICT(user_id) DO NOTHING
upsert_air_location_keep(rows, user_id, lat, lon, t) ==
    IF \E r \in rows : r.user_id = user_id THEN rows
    ELSE rows \cup {[user_id |-> user_id, lat |-> lat, lon |-> lon, updated_at |-> iso(t)]}

\* upsert_air_location whose DO UPDATE sets lat and updated_at and leaves lon
upsert_air_location_torn(rows, user_id, lat, lon, t) ==
    {r \in rows : r.user_id # user_id}
        \cup {[user_id |-> user_id, lat |-> lat, updated_at |-> iso(t),
               lon |-> IF \E r \in rows : r.user_id = user_id
                       THEN (CHOOSE r \in rows : r.user_id = user_id).lon
                       ELSE lon]}

\* upsert_air_location whose DO UPDATE sets lat and lon and leaves updated_at
upsert_air_location_stale(rows, user_id, lat, lon, t) ==
    {r \in rows : r.user_id # user_id}
        \cup {[user_id |-> user_id, lat |-> lat, lon |-> lon,
               updated_at |-> IF \E r \in rows : r.user_id = user_id
                              THEN (CHOOSE r \in rows : r.user_id = user_id).updated_at
                              ELSE iso(t)]}

\* DB.upsert_air_location: INSERT ... ON CONFLICT(user_id) DO UPDATE SET lat, lon, updated_at
upsert_air_location(rows, user_id, lat, lon, t) ==
    {r \in rows : r.user_id # user_id}
        \cup {[user_id |-> user_id, lat |-> lat, lon |-> lon, updated_at |-> iso(t)]}

\* fetchall returning the rows from the highest rowid down
RECURSIVE fetchall_reversed(_)
fetchall_reversed(rows) ==
    IF rows = {} THEN <<>>
    ELSE LET r == CHOOSE x \in rows : \A y \in rows : x.user_id >= y.user_id
         IN  <<r>> \o fetchall_reversed(rows \ {r})

\* SELECT ... FROM air_sessions: the rows in rowid order, and user_id is the rowid
\* (air_sessions.user_id is INTEGER PRIMARY KEY, line 149)
RECURSIVE fetchall(_)
fetchall(rows) ==
    IF rows = {} THEN <<>>
    ELSE LET r == CHOOSE x \in rows : \A y \in rows : x.user_id <= y.user_id
         IN  <<r>> \o fetchall(rows \ {r})

\* ttl_keeps with no test at all
ttl_keeps_all(r, t) == TRUE

\* the TTL test of DB.get_active_sessions on one row: ts >= cutoff, with
\* cutoff = now_utc() - timedelta(minutes=AIR_TTL_MINUTES).  Every updated_at is
\* written by iso(), so fromisoformat never raises and the except branch of
\* line 373 is not taken.
ttl_keeps(r, t) == fromisoformat(r.updated_at) >= t - AIR_TTL_MINUTES

\* get_active_sessions that applies the TTL test whatever AIR_TTL_MINUTES is
get_active_sessions_always_ttl(rows, t) ==
    SelectSeq(fetchall(rows), LAMBDA r : ttl_keeps(r, t))

\* DB.get_active_sessions
get_active_sessions(rows, t) ==
    IF AIR_TTL_MINUTES <= 0
    THEN fetchall(rows)
    ELSE SelectSeq(fetchall(rows), LAMBDA r : ttl_keeps(r, t))

\* ------------------------------------------------- on_location (bot.py)
\* ping_allowed with the test used > daily_pings
ping_allowed_off_by_one(user_id, t) ==
    LET plan == get_plan_for_user(user_id)
        used == get_daily(today_ymd(t), user_id, "pings")
    IN  plan.daily_pings <= 0 \/ used <= plan.daily_pings

\* enforce_daily_ping_limit: TRUE when the ping is allowed
ping_allowed(user_id, t) ==
    LET plan == get_plan_for_user(user_id)
        used == get_daily(today_ymd(t), user_id, "pings")
    IN  plan.daily_pings <= 0 \/ used < plan.daily_pings

\* is_nearby without the test uid == user_id
is_nearby_with_self(r, user_id, lat, lon, radius_m) ==
    int(haversine_mm(lat, lon, r.lat, r.lon)) <= radius_m

\* is_nearby with dist < radius_m
is_nearby_strict(r, user_id, lat, lon, radius_m) ==
    /\ r.user_id # user_id
    /\ int(haversine_mm(lat, lon, r.lat, r.lon)) < radius_m

\* the loop of lines 707-713 over one row: is the row kept in nearby
is_nearby(r, user_id, lat, lon, radius_m) ==
    /\ r.user_id # user_id
    /\ int(haversine_mm(lat, lon, r.lat, r.lon)) <= radius_m

\* the entry the loop appends: (uid, dist_m, lat, lon)
nearby_entry(r, lat, lon) ==
    [uid |-> r.user_id, dist |-> int(haversine_mm(lat, lon, r.lat, r.lon)),
     lat |-> r.lat, lon |-> r.lon]

\* list.sort(key=lambda x: x[1]): ascending and stable
RECURSIVE sort_by_dist(_)
sort_by_dist(s) ==
    IF Len(s) <= 1 THEN s
    ELSE LET x == Head(s)
             rest == sort_by_dist(Tail(s))
             k == Cardinality({j \in 1..Len(rest) : rest[j].dist < x.dist})
         IN  SubSeq(rest, 1, k) \o <<x>> \o SubSeq(rest, k + 1, Len(rest))

\* lines 706-715: the match list of a submission
find_nearby(rows, user_id, lat, lon, radius_m, t) ==
    LET sessions == get_active_sessions(rows, t)
        kept == SelectSeq(sessions, LAMBDA r : is_nearby(r, user_id, lat, lon, radius_m))
    IN  sort_by_dist([j \in 1..Len(kept) |-> nearby_entry(kept[j], lat, lon)])

\* lines 734-739: the entries of nearby[:10] whose user has a name and a marker
has_card(e) ==
    LET u == get_user(e.uid)
    IN  u # None /\ truthy(u[1].name) /\ truthy(u[1].marker)

\* shown_lines without the cut to ten
shown_lines_all(nearby) == SelectSeq(nearby, has_card)

shown_lines(nearby) == SelectSeq(SubSeq(nearby, 1, Min(Len(nearby), SHOW_LIMIT)), has_card)

\* a task slot with no coroutine in it
IdleTask ==
    [pc |-> "idle", sid |-> 0, user_id |-> 0, lat |-> 0, lon |-> 0, radius_m |-> 0,
     nearby |-> <<>>, lines |-> <<>>, i |-> 0, notified |-> 0]

\* a task slot whose coroutine ended by raising, after i turns of the notify loop
FailedTask(i) == [IdleTask EXCEPT !.pc = "failed", !.i = i]

FreeSlots == {h \in Slots : tasks[h].pc \in {"idle", "failed"}}

\* A location message reaches on_location when the chat is in no state of
\* ProfileState: the handlers of those states are registered before it and take
\* every message (lines 535, 559, 608).
\* lines 686-688: the sender has no complete profile; the handler answers and returns
OnLocationNoProfile(user_id) ==
    /\ backend = "sqlite"
    /\ fsm[user_id] = "none"
    /\ ~profile_complete(user_id)
    /\ UNCHANGED vars

\* lines 690-694: the daily limit is used up; the handler answers and returns
OnLocationLimit(user_id) ==
    /\ backend = "sqlite"
    /\ fsm[user_id] = "none"
    /\ profile_complete(user_id)
    /\ ~ping_allowed(user_id, now)
    /\ UNCHANGED vars

\* lines 683-721 for an accepted update: everything up to the first await of a reply
OnLocationBegin(user_id, lat, lon) ==
    /\ backend = "sqlite"
    /\ fsm[user_id] = "none"
    /\ nsub < MaxSubmissions
    /\ FreeSlots # {}
    /\ profile_complete(user_id)
    /\ ping_allowed(user_id, now)
    /\ LET h == CHOOSE x \in FreeSlots : \A y \in FreeSlots : x <= y
           plan == get_plan_for_user(user_id)
           rows == upsert_air_location(air_sessions, user_id, lat, lon, now)
           nearby == find_nearby(rows, user_id, lat, lon, plan.radius_m, now)
       IN  /\ daily_limits' = IF plan.daily_pings <= 0 THEN daily_limits
                              ELSE inc_daily(today_ymd(now), user_id, "pings", 1)
           /\ air_sessions' = rows
           /\ counters' = inc(counters, "locations_received", 1)
           /\ nsub' = nsub + 1
           /\ tasks' = [tasks EXCEPT ![h] =
                  [pc |-> "show", sid |-> nsub + 1, user_id |-> user_id, lat |-> lat,
                   lon |-> lon, radius_m |-> plan.radius_m, nearby |-> nearby,
                   lines |-> shown_lines(nearby), i |-> 0, notified |-> 0]]
    /\ UNCHANGED <<cfgVars, now, users, outbox, pgVars>>

\* lines 722-730: nobody nearby; the reply is sent and the handler returns
OnLocationShowEmpty(h) ==
    /\ tasks[h].pc = "show"
    /\ tasks[h].nearby = <<>>
    /\ counters' = inc(counters, "lists_shown", 1)
    /\ tasks' = [tasks EXCEPT ![h] = IdleTask]
    /\ UNCHANGED <<cfgVars, now, users, air_sessions, daily_limits, outbox, nsub, pgVars>>

\* lines 732-747: the list and the map links are sent to the sender
OnLocationShow(h) ==
    /\ tasks[h].pc = "show"
    /\ tasks[h].nearby # <<>>
    /\ counters' = inc(counters, "lists_shown", 1)
    /\ tasks' = [tasks EXCEPT ![h].pc = "notify", ![h].i = 1]
    /\ UNCHANGED <<cfgVars, now, users, air_sessions, daily_limits, outbox, nsub, pgVars>>

\* a message.answer of lines 723, 741 or 747 raises: the handler ends by the
\* exception, before db.inc("lists_shown") (the first reply) or after it (a map link)
OnLocationShowRaises(h) ==
    /\ tasks[h].pc = "show"
    /\ tasks[h].user_id \in Unreliable
    /\ \/ UNCHANGED counters
       \/ /\ tasks[h].lines # <<>>
          /\ counters' = inc(counters, "lists_shown", 1)
    /\ tasks' = [tasks EXCEPT ![h] = FailedTask(0)]
    /\ UNCHANGED <<cfgVars, now, users, air_sessions, daily_limits, outbox, nsub, pgVars>>

\* notify_list cut like the list shown to the sender
notify_list_short(nearby) == SubSeq(nearby, 1, Min(Len(nearby), SHOW_LIMIT))

\* notify_list without the cut to 25
notify_list_all(nearby) == nearby

\* the recipients the notify loop walks: nearby[:25]
notify_list(nearby) == SubSeq(nearby, 1, Min(Len(nearby), NOTIFY_LIMIT))

\* after_send without the try/except: a send that raises ends the handler
after_send_unguarded(t, ok) ==
    IF ok THEN [t EXCEPT !.i = @ + 1, !.notified = @ + 1]
    ELSE FailedTask(t.i)

\* after_send that tries the same recipient again when the send raised
after_send_retry(t, ok) ==
    IF ok THEN [t EXCEPT !.i = @ + 1, !.notified = @ + 1] ELSE t

\* what the task of slot h becomes when bot.send_message to its i-th recipient
\* returns (ok) or raises (~ok): lines 756-767
after_send(t, ok) ==
    [t EXCEPT !.i = @ + 1, !.notified = IF ok THEN @ + 1 ELSE @]

\* skip_recipient that also passes over a recipient about whom the sender was
\* notified before
skip_recipient_symmetric(t, uid) ==
    \/ get_user(uid) = None
    \/ \E m \in outbox : m.ok /\ m.from = uid /\ m.to = t.user_id

\* lines 753-755: u = db.get_user(uid); if not u: continue
skip_recipient(t, uid) == get_user(uid) = None

\* the record of one bot.send_message call
attempt(t, ok) ==
    [sid |-> t.sid, from |-> t.user_id, to |-> notify_list(t.nearby)[t.i].uid,
     at |-> now, ok |-> ok]

\* lines 751-767: one turn of the notify loop
OnLocationNotify(h) ==
    /\ tasks[h].pc = "notify"
    /\ tasks[h].i <= Len(notify_list(tasks[h].nearby))
    /\ LET t == tasks[h]
           uid == notify_list(t.nearby)[t.i].uid
       IN  \/ /\ skip_recipient(t, uid)
              /\ tasks' = [tasks EXCEPT ![h].i = @ + 1]
              /\ UNCHANGED outbox
           \/ /\ ~skip_recipient(t, uid)
              /\ \E ok \in {TRUE, FALSE} :
                    /\ ~ok => uid \in Unreliable
                    /\ outbox' = outbox \cup {attempt(t, ok)}
                    /\ tasks' = [tasks EXCEPT ![h] = after_send(t, ok)]
    /\ UNCHANGED <<cfgVars, now, users, air_sessions, daily_limits, counters, nsub, pgVars>>

\* lines 769-771: the loop is over; the handler counts what it sent and returns
OnLocationReturn(h) ==
    /\ tasks[h].pc = "notify"
    /\ tasks[h].i > Len(notify_list(tasks[h].nearby))
    /\ counters' = IF tasks[h].notified > 0
                   THEN inc(counters, "notifications_sent", tasks[h].notified)
                   ELSE counters
    /\ tasks' = [tasks EXCEPT ![h] = IdleTask]
    /\ UNCHANGED <<cfgVars, now, users, air_sessions, daily_limits, outbox, nsub, pgVars>>

\* ------------------------------------------- the profile dialogue (bot.py)
envVars == <<backend, AIR_RADIUS_M_DEFAULT, AIR_TTL_MINUTES, FREE_DAILY_PINGS, subscriptions, now>>
airVars == <<air_sessions, daily_limits, counters, tasks, outbox, nsub>>

\* cmd_start up to its reply: lines 456-459.  CommandStart is registered first
\* and is taken in every state of the chat.
CmdStart(user_id) ==
    /\ backend = "sqlite"
    /\ users' = upsert_user(users, user_id, NULL, NULL)
    /\ fsm' = [fsm EXCEPT ![user_id] = "none"]
    /\ pending' = pending \cup {user_id}
    /\ UNCHANGED <<envVars, airVars, pgVars>>

\* the reply is sent and the handler goes on to
\* set_state(ProfileState.waiting_name): lines 463 and 600
SetWaitingName(user_id) ==
    /\ user_id \in pending
    /\ fsm' = [fsm EXCEPT ![user_id] = "waiting_name"]
    /\ pending' = pending \ {user_id}
    /\ UNCHANGED <<envVars, users, airVars, pgVars>>

\* the reply of lines 459 or 599 raises: the handler ends before set_state
AnswerRaises(user_id) ==
    /\ user_id \in pending
    /\ user_id \in Unreliable
    /\ pending' = pending \ {user_id}
    /\ UNCHANGED <<envVars, fsm, users, airVars, pgVars>>

\* profile_name: lines 536-557
ProfileName(user_id, text) ==
    /\ fsm[user_id] = "waiting_name"
    /\ LET txt == clamp_text(text)
       IN  \/ /\ txt = CancelText
              /\ fsm' = [fsm EXCEPT ![user_id] = "none"]
              /\ UNCHANGED users
           \/ /\ txt # CancelText
              /\ ~valid_name(txt)
              /\ UNCHANGED <<fsm, users>>
           \/ /\ txt # CancelText
              /\ valid_name(txt)
              /\ users' = upsert_user(users, user_id, txt, NULL)
              /\ fsm' = [fsm EXCEPT ![user_id] = "waiting_marker"]
    /\ UNCHANGED <<envVars, pending, airVars, pgVars>>

\* profile_marker: lines 560-576
ProfileMarker(user_id, text) ==
    /\ fsm[user_id] = "waiting_marker"
    /\ LET txt == clamp_text(text)
       IN  \/ /\ txt = CancelText
              /\ fsm' = [fsm EXCEPT ![user_id] = "none"]
              /\ UNCHANGED users
           \/ /\ txt # CancelText
              /\ ~valid_marker(txt)
              /\ UNCHANGED <<fsm, users>>
           \/ /\ txt # CancelText
              /\ valid_marker(txt)
              /\ users' = upsert_user(users, user_id, NULL, txt)
              /\ fsm' = [fsm EXCEPT ![user_id] = "none"]
    /\ UNCHANGED <<envVars, pending, airVars, pgVars>>

\* btn_change_marker: lines 593-606.  It is registered after the handlers of
\* waiting_name and waiting_marker and before the one of changing_marker.
BtnChangeMarker(user_id) ==
    /\ backend = "sqlite"
    /\ fsm[user_id] \in {"none", "changing_marker"}
    /\ \/ /\ ~profile_complete(user_id)
          /\ pending' = pending \cup {user_id}
          /\ UNCHANGED fsm
       \/ /\ profile_complete(user_id)
          /\ fsm' = [fsm EXCEPT ![user_id] = "changing_marker"]
          /\ UNCHANGED pending
    /\ UNCHANGED <<envVars, users, airVars, pgVars>>

\* change_marker_save: lines 609-623
ChangeMarkerSave(user_id, text) ==
    /\ fsm[user_id] = "changing_marker"
    /\ LET txt == clamp_text(text)
       IN  \/ /\ txt = CancelText
              /\ fsm' = [fsm EXCEPT ![user_id] = "none"]
              /\ UNCHANGED users
           \/ /\ txt # CancelText
              /\ ~valid_marker(txt)
              /\ UNCHANGED <<fsm, users>>
           \/ /\ txt # CancelText
              /\ valid_marker(txt)
              /\ users' = upsert_user(users, user_id, NULL, txt)
              /\ fsm' = [fsm EXCEPT ![user_id] = "none"]
    /\ UNCHANGED <<envVars, pending, airVars, pgVars>>

\* timedelta(days=days), in minutes: the date changes every Midnight minutes
timedelta_days(days) == days * Midnight

\* cmd_grant_airplus sent by an admin as /grant_airplus uid days (lines 513-530)
CmdGrantAirplus(uid, days) ==
    /\ backend = "sqlite"
    /\ subscriptions' = set_subscription(subscriptions, uid, "air_plus",
                                         Some(now + timedelta_days(days)), now)
    /\ UNCHANGED <<backend, AIR_RADIUS_M_DEFAULT, AIR_TTL_MINUTES, FREE_DAILY_PINGS, fsm,
                   pending, now, botVars, pgVars>>

\* the clock
Tick ==
    /\ now < MaxTime
    /\ now' = now + 1
    /\ revived' = {}
    /\ UNCHANGED <<cfgVars, botVars, pg_users, pg_sessions, stopped>>

\* ------------------------------------------------ class Database (db.py)
\* Database.upsert_user: INSERT INTO users(user_id) ... ON CONFLICT DO NOTHING
Database_upsert_user(user_id) ==
    /\ backend = "postgres"
    /\ pg_users' = pg_users \cup {user_id}
    /\ revived' = {}
    /\ UNCHANGED <<cfgVars, now, botVars, pg_sessions, stopped>>

\* upsert_session_rows whose DO UPDATE leaves active_until as it was
upsert_session_rows_keep_expiry(rows, user_id, lat, lon, t, active_until) ==
    {r \in rows : r.user_id # user_id}
        \cup {[user_id |-> user_id, lat |-> lat, lon |-> lon, updated_at |-> t,
               active_until |-> IF \E r \in rows : r.user_id = user_id
                                THEN (CHOOSE r \in rows : r.user_id = user_id).active_until
                                ELSE active_until]}

\* the INSERT ... ON CONFLICT (user_id) DO UPDATE of Database.upsert_session
upsert_session_rows(rows, user_id, lat, lon, t, active_until) ==
    {r \in rows : r.user_id # user_id}
        \cup {[user_id |-> user_id, lat |-> lat, lon |-> lon, updated_at |-> t,
               active_until |-> active_until]}

\* what an upsert_session for user_id comes after: a set_session_inactive, the
\* expiry of the stored session, or neither
revives(user_id) ==
    IF \E x \in stopped : x.user_id = user_id THEN {"stop"}
    ELSE IF \E r \in pg_sessions :
                r.user_id = user_id /\ r.active_until # None /\ r.active_until[1] <= now
         THEN {"expiry"}
         ELSE {}

\* Database.upsert_session; sessions.user_id REFERENCES users(user_id), so without
\* the users row the statement raises and nothing is written
Database_upsert_session(user_id, lat, lon, active_until) ==
    /\ backend = "postgres"
    /\ \/ /\ user_id \in pg_users
          /\ pg_sessions' = upsert_session_rows(pg_sessions, user_id, lat, lon, now, active_until)
          /\ stopped' = {x \in stopped : x.user_id # user_id}
          /\ revived' = {[user_id |-> user_id, after |-> a, lat |-> lat, lon |-> lon] :
                             a \in revives(user_id)}
       \/ /\ user_id \notin pg_users
          /\ revived' = {}
          /\ UNCHANGED <<pg_sessions, stopped>>
    /\ UNCHANGED <<cfgVars, now, botVars, pg_users>>

\* delete_session_rows with no WHERE clause
delete_session_rows_all(rows, user_id) == {}

\* delete_session_rows that ends only the sessions that have an expiry
delete_session_rows_expiring(rows, user_id) ==
    {r \in rows : r.user_id # user_id \/ r.active_until = None}

\* the DELETE of Database.set_session_inactive
delete_session_rows(rows, user_id) == {r \in rows : r.user_id # user_id}

\* what a call of set_session_inactive finds stored for user_id
found_session(user_id) ==
    IF \A r \in pg_sessions : r.user_id # user_id THEN "none"
    ELSE IF \E r \in pg_sessions : r.user_id = user_id /\ r.active_until = None
         THEN "no expiry"
         ELSE IF \E r \in pg_sessions : r.user_id = user_id /\ r.active_until[1] > now
              THEN "unexpired"
              ELSE "expired"

\* Database.set_session_inactive
Database_set_session_inactive(user_id) ==
    /\ backend = "postgres"
    /\ pg_sessions' = delete_session_rows(pg_sessions, user_id)
    /\ stopped' = {x \in stopped : x.user_id # user_id}
                       \cup {[user_id |-> user_id, found |-> found_session(user_id)]}
    /\ revived' = {}
    /\ UNCHANGED <<cfgVars, now, botVars, pg_users>>

\* the WHERE clause of Database.get_active_sessions
active_until_keeps(r, t) == r.active_until = None \/ r.active_until[1] > t

\* Database.get_active_sessions(now): sessions JOIN users, filtered
Database_get_active_sessions(t) ==
    {r \in pg_sessions : r.user_id \in pg_users /\ active_until_keeps(r, t)}

\* the caller of Database.upsert_session, which is not among the sources: it
\* gives the session the expiry now + TTL, or none when TTL is 0
expires_at(t) == IF AIR_TTL_MINUTES > 0 THEN Some(t + AIR_TTL_MINUTES) ELSE None

\* ------------------------------------------------------------ the system
CompleteProfile(u) == [user_id |-> u, name |-> "name", marker |-> "marker"]

\* where the crowd stands: the first of them 0.778 m east of the odd ones
CrowdCoord(u) ==
    IF u = Cardinality(Actors) + 1 THEN <<0, 1807>>
    ELSE IF u % 2 = 0 THEN <<0, 0>> ELSE <<0, 1800>>

CrowdSession(u) ==
    [user_id |-> u, lat |-> CrowdCoord(u)[1], lon |-> CrowdCoord(u)[2], updated_at |-> iso(0)]

\* bot.py starts on a database file that the actors have set their profiles in
InitSqlite ==
    /\ backend = "sqlite"
    /\ AIR_RADIUS_M_DEFAULT \in RadiusChoices
    /\ AIR_TTL_MINUTES \in TtlChoices
    /\ FREE_DAILY_PINGS \in PingChoices
    /\ users = {CompleteProfile(u) : u \in Actors}
    /\ air_sessions = {}
    /\ daily_limits = {}
    /\ counters = [k \in {"locations_received", "lists_shown", "notifications_sent"} |-> 0]
    /\ pg_users = {}
    /\ pg_sessions = {}
    /\ stopped = {}
    /\ revived = {}

InitPostgres ==
    /\ backend = "postgres"
    /\ AIR_RADIUS_M_DEFAULT = 200
    /\ AIR_TTL_MINUTES \in TtlChoices
    /\ FREE_DAILY_PINGS = 5
    /\ users = {}
    /\ air_sessions = {}
    /\ daily_limits = {}
    /\ counters = [k \in {"locations_received", "lists_shown", "notifications_sent"} |-> 0]
    /\ pg_users = {}
    /\ pg_sessions = {}
    /\ stopped = {}
    /\ revived = {}

\* bot.py starts on a database file that also holds the crowd's profiles and sessions
InitCrowded ==
    /\ backend = "sqlite"
    /\ AIR_RADIUS_M_DEFAULT \in RadiusChoices
    /\ AIR_TTL_MINUTES \in TtlChoices
    /\ FREE_DAILY_PINGS \in PingChoices
    /\ users = {CompleteProfile(u) : u \in Users}
    /\ air_sessions = {CrowdSession(u) : u \in Crowd}
    /\ daily_limits = {}
    /\ counters = [k \in {"locations_received", "lists_shown", "notifications_sent"} |-> 0]
    /\ pg_users = {}
    /\ pg_sessions = {}
    /\ stopped = {}
    /\ revived = {}

InitRun ==
    /\ now = 0
    /\ subscriptions = {}
    /\ fsm = [u \in Senders |-> "none"]
    /\ pending = {}
    /\ tasks = [h \in Slots |-> IdleTask]
    /\ outbox = {}
    /\ nsub = 0

Init == InitRun /\ (InitSqlite \/ InitPostgres)

InitCrowd == InitRun /\ InitCrowded

Next ==
    \/ \E u \in Senders : OnLocationNoProfile(u)
    \/ \E u \in Senders : OnLocationLimit(u)
    \/ \E u \in Senders, c \in Coords : OnLocationBegin(u, c[1], c[2])
    \/ \E h \in Slots : OnLocationShowEmpty(h)
    \/ \E h \in Slots : OnLocationShow(h)
    \/ \E h \in Slots : OnLocationShowRaises(h)
    \/ \E h \in Slots : OnLocationNotify(h)
    \/ \E h \in Slots : OnLocationReturn(h)
    \/ \E u \in Senders : Database_upsert_user(u)
    \/ \E u \in Senders, c \in Coords :
          Database_upsert_session(u, c[1], c[2], expires_at(now))
    \/ \E u \in Senders : Database_set_session_inactive(u)
    \/ Tick

Spec == Init /\ [][Next]_vars

\* no on_location coroutine is in flight
Quiet == \A h \in Slots : tasks[h].pc \in {"idle", "failed"}

\* the crowded database within one minute, the updates handled one after another
NextCrowd ==
    \/ \E u \in Senders : OnLocationNoProfile(u)
    \/ \E u \in Senders : OnLocationLimit(u)
    \/ \E u \in Senders, c \in Coords : Quiet /\ OnLocationBegin(u, c[1], c[2])
    \/ \E h \in Slots : OnLocationShowEmpty(h)
    \/ \E h \in Slots : OnLocationShow(h)
    \/ \E h \in Slots : OnLocationShowRaises(h)
    \/ \E h \in Slots : OnLocationNotify(h)
    \/ \E h \in Slots : OnLocationReturn(h)

SpecCrowd == InitCrowd /\ [][NextCrowd]_vars

\* bot.py starts on a database file in which both actors already have a session
InitPaired ==
    /\ backend = "sqlite"
    /\ AIR_RADIUS_M_DEFAULT \in PairRadiusChoices
    /\ AIR_TTL_MINUTES = 0
    /\ FREE_DAILY_PINGS \in PingChoices
    /\ users = {CompleteProfile(u) : u \in Actors}
    /\ air_sessions = {[user_id |-> u, lat |-> Pole[1], lon |-> Pole[2], updated_at |-> iso(0)] :
                          u \in Actors}
    /\ daily_limits = {}
    /\ counters = [k \in {"locations_received", "lists_shown", "notifications_sent"} |-> 0]
    /\ pg_users = {}
    /\ pg_sessions = {}
    /\ stopped = {}
    /\ revived = {}

InitPair == InitRun /\ InitPaired

\* the two actors within one minute, their updates handled concurrently
NextPair ==
    \/ \E u \in Senders : OnLocationNoProfile(u)
    \/ \E u \in Senders : OnLocationLimit(u)
    \/ \E u \in Senders, c \in PairCoords : OnLocationBegin(u, c[1], c[2])
    \/ \E h \in Slots : OnLocationShowEmpty(h)
    \/ \E h \in Slots : OnLocationShow(h)
    \/ \E h \in Slots : OnLocationShowRaises(h)
    \/ \E h \in Slots : OnLocationNotify(h)
    \/ \E h \in Slots : OnLocationReturn(h)

SpecPair == InitPair /\ [][NextPair]_vars

\* bot.py starts with FREE_DAILY_PINGS = 1 on a database file that the actors
\* have set their profiles in
InitPlans ==
    /\ InitRun
    /\ InitSqlite
    /\ AIR_RADIUS_M_DEFAULT = 200
    /\ AIR_TTL_MINUTES = 0
    /\ FREE_DAILY_PINGS = 1

\* the location updates, the admin's grants and the clock
NextPlans ==
    \/ \E u \in Senders : OnLocationNoProfile(u)
    \/ \E u \in Senders : OnLocationLimit(u)
    \/ \E u \in Senders, c \in PlanCoords : OnLocationBegin(u, c[1], c[2])
    \/ \E h \in Slots : OnLocationShowEmpty(h)
    \/ \E h \in Slots : OnLocationShow(h)
    \/ \E h \in Slots : OnLocationShowRaises(h)
    \/ \E h \in Slots : OnLocationNotify(h)
    \/ \E h \in Slots : OnLocationReturn(h)
    \/ \E uid \in Granted, days \in GrantDays : CmdGrantAirplus(uid, days)
    \/ Tick

SpecPlans == InitPlans /\ [][NextPlans]_vars

\* bot.py starts with FREE_DAILY_PINGS = 1 on a database file it has just created
InitProfile ==
    /\ InitRun
    /\ backend = "sqlite"
    /\ AIR_RADIUS_M_DEFAULT = 200
    /\ AIR_TTL_MINUTES = 0
    /\ FREE_DAILY_PINGS = 1
    /\ users = {}
    /\ air_sessions = {}
    /\ daily_limits = {}
    /\ counters = [k \in {"locations_received", "lists_shown", "notifications_sent"} |-> 0]
    /\ pg_users = {}
    /\ pg_sessions = {}
    /\ stopped = {}
    /\ revived = {}

\* the profile dialogues of the actors and their location updates, within one
\* minute
NextProfile ==
    \/ \E u \in Actors : CmdStart(u)
    \/ \E u \in Actors : SetWaitingName(u)
    \/ \E u \in Actors : AnswerRaises(u)
    \/ \E u \in Actors, x \in MessageTexts : ProfileName(u, x)
    \/ \E u \in Actors, x \in MessageTexts : ProfileMarker(u, x)
    \/ \E u \in Actors : BtnChangeMarker(u)
    \/ \E u \in Actors, x \in MessageTexts : ChangeMarkerSave(u, x)
    \/ \E u \in Senders : OnLocationNoProfile(u)
    \/ \E u \in Senders : OnLocationLimit(u)
    \/ \E u \in Senders, c \in PlanCoords : OnLocationBegin(u, c[1], c[2])
    \/ \E h \in Slots : OnLocationShowEmpty(h)
    \/ \E h \in Slots : OnLocationShow(h)
    \/ \E h \in Slots : OnLocationShowRaises(h)
    \/ \E h \in Slots : OnLocationNotify(h)
    \/ \E h \in Slots : OnLocationReturn(h)

SpecProfile == InitProfile /\ [][NextProfile]_vars

\* ------------------------------------------------------------ properties
Range(f) == {f[k] : k \in DOMAIN f}

uids(nearby) == {nearby[k].uid : k \in 1..Len(nearby)}

\* the notify loop of slot h has walked its whole list
DispatchDone(h) ==
    /\ tasks[h].pc = "notify"
    /\ tasks[h].i > Len(notify_list(tasks[h].nearby))

\* a bot.send_message to uid was made for submission sid
Attempted(sid, uid) == \E m \in outbox : m.sid = sid /\ m.to = uid

\* the cooldown window of the specification (its section 6), in minutes
CooldownWindow == 1

\* C1: two notifications about the same subject that reach the same recipient are
\* at least a cooldown window apart: a second submission inside the window
\* sends nothing to a recipient the first one reached.
C1_CooldownRespected ==
    \A m1 \in outbox : \A m2 \in outbox :
        (/\ m1.ok /\ m2.ok
         /\ m1.from = m2.from /\ m1.to = m2.to
         /\ m1.sid # m2.sid)
        => Abs(m1.at - m2.at) >= CooldownWindow

\* no notification about subject went to uid before submission sid
FirstContact(sid, subject, uid) ==
    ~\E m \in outbox : m.from = subject /\ m.to = uid /\ m.sid # sid

\* C2 as claimed: when the dispatch of a submission is over, every match that no
\* earlier notification about the sender had gone to was sent a notification,
\* however long the match list is.
C2_FirstContactEveryMatch ==
    \A h \in Slots :
        DispatchDone(h) =>
            \A k \in 1..Len(tasks[h].nearby) :
                FirstContact(tasks[h].sid, tasks[h].user_id, tasks[h].nearby[k].uid)
                    => Attempted(tasks[h].sid, tasks[h].nearby[k].uid)

\* C2 as amended: when the dispatch of a submission is over, every match among the
\* 25 nearest that no earlier notification about the sender had gone to was sent
\* a notification.
C2_FirstContactNearest25 ==
    \A h \in Slots :
        DispatchDone(h) =>
            \A k \in 1..Min(Len(tasks[h].nearby), NOTIFY_LIMIT) :
                FirstContact(tasks[h].sid, tasks[h].user_id, tasks[h].nearby[k].uid)
                    => Attempted(tasks[h].sid, tasks[h].nearby[k].uid)

\* a dispatch is over for a list of more than 25 matches, none notified before
C2_Witness ==
    \E h \in Slots :
        /\ DispatchDone(h)
        /\ Len(tasks[h].nearby) > NOTIFY_LIMIT
        /\ \A k \in 1..Len(tasks[h].nearby) :
              FirstContact(tasks[h].sid, tasks[h].user_id, tasks[h].nearby[k].uid)

\* C3: the sender of an update is in neither the match list computed for it
\* (from the stored sessions, the sender's own, just written, among them), nor
\* the list shown, nor among the recipients of its notifications.
C3_NeverSelf ==
    /\ \A h \in Slots :
          /\ tasks[h].user_id \notin uids(tasks[h].nearby)
          /\ tasks[h].user_id \notin uids(tasks[h].lines)
    /\ \A m \in outbox : m.to # m.from

\* a handler with a match list is in flight, the sender's session is stored at
\* the coordinates of the query, and a notification of that submission was sent
C3_Witness ==
    \E h \in Slots :
        /\ tasks[h].pc = "notify"
        /\ \E r \in air_sessions :
              r.user_id = tasks[h].user_id /\ r.lat = tasks[h].lat /\ r.lon = tasks[h].lon
        /\ \E m \in outbox : m.sid = tasks[h].sid /\ m.ok

\* the distance haversine_m computes from c to the row, in millimetres
DistanceMM(c, r) == haversine_mm(c[1], c[2], r.lat, r.lon)

\* the match list the handler of the update just accepted has computed
NewList == (CHOOSE t \in Range(tasks') : t.sid = nsub').nearby

\* the active set as the handler of the update just accepted has read it
NewlyRead == Range(get_active_sessions(air_sessions', now'))

\* C4 as claimed: at every accepted update, an active session of another user
\* is in the match list exactly when the distance haversine_m computes to it is
\* <= radius_m.
C4_InRadiusIffDistance ==
    [][\A u \in Actors : \A c \in Coords :
          OnLocationBegin(u, c[1], c[2]) =>
              \A r \in NewlyRead :
                  r.user_id # u =>
                      (r.user_id \in uids(NewList)
                          <=> DistanceMM(c, r) <= 1000 * get_plan_for_user(u).radius_m)]_vars

\* C4 as amended: at every accepted update, an active session of another user
\* is in the match list exactly when the computed distance, cut to whole metres,
\* is <= radius_m; the list holds no one else.
C4_InRadiusIffWholeMetres ==
    [][\A u \in Actors : \A c \in Coords :
          OnLocationBegin(u, c[1], c[2]) =>
              /\ \A r \in NewlyRead :
                    r.user_id # u =>
                        (r.user_id \in uids(NewList)
                            <=> DistanceMM(c, r) \div 1000 <= get_plan_for_user(u).radius_m)
              /\ uids(NewList) \subseteq {r.user_id : r \in NewlyRead}]_vars

\* a handler with radius 200 m holds a match at 200 whole metres
C4_Witness ==
    \E h \in Slots :
        /\ tasks[h].pc = "show"
        /\ tasks[h].radius_m = 200
        /\ \E k \in 1..Len(tasks[h].nearby) : tasks[h].nearby[k].dist = 200

\* the row's TTL ran out strictly before t
ExpiredAt(r, t) ==
    /\ AIR_TTL_MINUTES > 0
    /\ fromisoformat(r.updated_at) + AIR_TTL_MINUTES < t

\* C5, at every moment: a stored session whose expiry time is strictly before now
\* is not in the active set, and the recipients of a submission's notifications
\* are entries of its match list.
C5_ExpiredNotRead ==
    /\ \A r \in air_sessions :
          ExpiredAt(r, now) =>
              r \notin Range(get_active_sessions(air_sessions, now))
    /\ \A r \in pg_sessions :
          (r.active_until # None /\ r.active_until[1] < now) =>
              r \notin Database_get_active_sessions(now)
    /\ \A h \in Slots : \A m \in outbox :
          (tasks[h].pc = "notify" /\ m.sid = tasks[h].sid) => m.to \in uids(tasks[h].nearby)

\* C5, at every accepted update: no entry of the match list the handler takes
\* away is of a session expired at that moment.
C5_ExpiredNotMatched ==
    \A u \in Actors : \A c \in Coords :
        OnLocationBegin(u, c[1], c[2]) =>
            \A h \in Slots :
                tasks'[h].sid = nsub' =>
                    \A k \in 1..Len(tasks'[h].nearby) :
                        \E r \in air_sessions' :
                            /\ r.user_id = tasks'[h].nearby[k].uid
                            /\ ~ExpiredAt(r, now)

C6_ActiveIffExpiryAfterNow ==
    /\ \A r \in air_sessions :
          r \in Range(get_active_sessions(air_sessions, now))
              <=> (AIR_TTL_MINUTES <= 0 \/ fromisoformat(r.updated_at) + AIR_TTL_MINUTES > now)
    /\ Database_get_active_sessions(now)
          = {r \in pg_sessions : r.active_until = None \/ r.active_until[1] > now}

\* C7: each store holds at most one session per user_id.
C7_OneSessionPerUser ==
    /\ \A r1 \in air_sessions : \A r2 \in air_sessions : r1.user_id = r2.user_id => r1 = r2
    /\ \A r1 \in pg_sessions : \A r2 \in pg_sessions : r1.user_id = r2.user_id => r1 = r2

\* a user has had two updates accepted on one day and has a session
C7_Witness ==
    \E u \in Actors :
        /\ \E d \in daily_limits : d.user_id = u /\ d.value = 2
        /\ \E r \in air_sessions : r.user_id = u

\* C8, bot.py: right after an accepted update of u at c, u's row holds c and is
\* in the active set.
C8_UpsertAirLocation ==
    \A u \in Actors : \A c \in Coords :
        OnLocationBegin(u, c[1], c[2]) =>
            LET mine == {r \in air_sessions' : r.user_id = u}
            IN  /\ mine # {}
                /\ \A r \in mine :
                      /\ r.lat = c[1] /\ r.lon = c[2]
                      /\ r \in Range(get_active_sessions(air_sessions', now'))

\* C8, db.py: right after upsert_session for a known user u at c, u's row holds
\* c and is in the active set.
C8_UpsertSession ==
    \A u \in Senders : \A c \in Coords :
        (u \in pg_users /\ Database_upsert_session(u, c[1], c[2], expires_at(now))) =>
            LET mine == {r \in pg_sessions' : r.user_id = u}
            IN  /\ mine # {}
                /\ \A r \in mine :
                      /\ r.lat = c[1] /\ r.lon = c[2]
                      /\ r \in Database_get_active_sessions(now)'

\* C8: immediately after upsert(u, lat, lon), u's session has exactly those
\* coordinates, not those of an earlier submission, and is active.
C8_UpsertThenRead == [][C8_UpsertAirLocation /\ C8_UpsertSession]_vars

\* a handler has just accepted the second update of its user
C8_Witness ==
    \E h \in Slots :
        /\ tasks[h].pc = "show"
        /\ \E d \in daily_limits : d.user_id = tasks[h].user_id /\ d.value = 2
        /\ \E r \in air_sessions :
              r.user_id = tasks[h].user_id /\ r.lat = tasks[h].lat /\ r.lon = tasks[h].lon

\* C9: a user whose session was set inactive, and who has not upserted since, is
\* in the active set of no moment, whatever expiry the session had.
C9_StoppedNeverActive ==
    \A x \in stopped : \A t \in Times :
        \A r \in Database_get_active_sessions(t) : r.user_id # x.user_id

\* a session with no expiry was set inactive while another session is active
C9_Witness ==
    /\ \E x \in stopped : x.found = "no expiry"
    /\ Database_get_active_sessions(now) # {}

\* the notifications of submission sid that were delivered
Delivered(sid) == {m \in outbox : m.sid = sid /\ m.ok}

\* the submissions whose notify loop is running
Dispatching == {tasks[h].sid : h \in {x \in Slots : tasks[x].pc = "notify"}}

\* C10: a send that fails does not stop the notify loop (every recipient before
\* the loop's position was attempted), does not end the handler by an exception,
\* and is not counted: notified, and the counter notifications_sent after the
\* handler, count the deliveries only.
C10_FailureIsolated ==
    /\ \A h \in Slots :
          LET t == tasks[h]
          IN  /\ t.pc = "notify" =>
                    /\ \A k \in 1..(t.i - 1) :
                          get_user(notify_list(t.nearby)[k].uid) # None
                              => Attempted(t.sid, notify_list(t.nearby)[k].uid)
                    /\ t.notified = Cardinality(Delivered(t.sid))
              /\ t.pc = "failed" => t.i = 0
    /\ counters["notifications_sent"]
          = Cardinality({m \in outbox : m.ok /\ m.sid \notin Dispatching})

\* a notify loop is over in which a send failed and a later recipient was reached
C10_Witness ==
    \E h \in Slots :
        /\ DispatchDone(h)
        /\ \E k1 \in 1..Len(tasks[h].nearby) : \E k2 \in 1..Len(tasks[h].nearby) :
              /\ k1 < k2
              /\ \E m \in outbox :
                    m.sid = tasks[h].sid /\ m.to = tasks[h].nearby[k1].uid /\ ~m.ok
              /\ \E m \in outbox :
                    m.sid = tasks[h].sid /\ m.to = tasks[h].nearby[k2].uid /\ m.ok

\* the bot.send_message calls made for submission sid
Sent(sid) == {m \in outbox : m.sid = sid}

\* C11: within one submission no recipient is sent a second notification (the
\* list walked names no user twice, and there are as many sends as recipients),
\* and the recipients are exactly the entries of nearby[:25] the loop has
\* walked, whether or not an entry was among the lines shown to the sender.
C11_OncePerRecipient ==
    \A h \in Slots :
        tasks[h].pc = "notify" =>
            LET t == tasks[h]
                list == notify_list(t.nearby)
                walked == {k \in 1..Len(list) : k < t.i}
                sent == Sent(t.sid)
                reached == {m.to : m \in sent}
            IN  /\ Cardinality(uids(list)) = Len(list)
                /\ Cardinality(sent) = Cardinality(reached)
                /\ reached = {list[k].uid : k \in {j \in walked : get_user(list[j].uid) # None}}

\* a notify loop is over that reached both a recipient shown to the sender and
\* one of the match list who was not shown
C11_Witness ==
    \E h \in Slots :
        /\ DispatchDone(h)
        /\ Len(tasks[h].nearby) > SHOW_LIMIT
        /\ \E m \in Sent(tasks[h].sid) : m.ok /\ m.to \in uids(tasks[h].lines)
        /\ \E m \in Sent(tasks[h].sid) : m.ok /\ m.to \notin uids(tasks[h].lines)

\* C12: a notification delivered to B about A never keeps a later notification
\* to A about B from being sent: every recipient the notify loop of B's update
\* has walked was sent to, those about whom B was notified before included.
C12_ReverseNotSuppressed ==
    \A h \in Slots :
        tasks[h].pc = "notify" =>
            LET t == tasks[h]
                list == notify_list(t.nearby)
            IN  \A k \in 1..Len(list) :
                    (/\ k < t.i
                     /\ get_user(list[k].uid) # None
                     /\ \E m \in outbox : m.ok /\ m.from = list[k].uid /\ m.to = t.user_id)
                    => Attempted(t.sid, list[k].uid)

\* B was notified about A by one update and A about B by a later one
C12_Witness ==
    \E m1 \in outbox : \E m2 \in outbox :
        /\ m1.ok /\ m2.ok
        /\ m1.from = m2.to /\ m1.to = m2.from
        /\ m1.sid < m2.sid
        /\ Quiet

\* C13: when two updates of the same sender are handled concurrently and match
\* the same recipient, at most one of the two handlers delivers a notification
\* to that recipient within one cooldown window.
C13_OneSendPerWindow ==
    \A h1 \in Slots : \A h2 \in Slots :
        (/\ h1 # h2
         /\ tasks[h1].pc \in {"show", "notify"}
         /\ tasks[h2].pc \in {"show", "notify"}
         /\ tasks[h1].user_id = tasks[h2].user_id)
        => \A m1 \in Sent(tasks[h1].sid) : \A m2 \in Sent(tasks[h2].sid) :
               (m1.ok /\ m2.ok /\ m1.to = m2.to) => Abs(m1.at - m2.at) >= CooldownWindow

\* the distance haversine_m computes from the query of task t to its match e, in
\* millimetres
ExactMM(t, e) == haversine_mm(t.lat, t.lon, e.lat, e.lon)

\* C14 as claimed: every match list is in ascending order of the distance
\* haversine_m computes, and matches at equal distance are in order of user_id
\* (each entry against the next, which orders the whole list).
C14_SortedByDistance ==
    \A h \in Slots :
        LET t == tasks[h]
        IN  \A j \in 1..(Len(t.nearby) - 1) :
                \/ ExactMM(t, t.nearby[j]) < ExactMM(t, t.nearby[j + 1])
                \/ /\ ExactMM(t, t.nearby[j]) = ExactMM(t, t.nearby[j + 1])
                   /\ t.nearby[j].uid < t.nearby[j + 1].uid

\* C14 as amended: every match list is in ascending order of the distance cut to
\* whole metres (the distance its entries carry), and matches equal in whole
\* metres are in order of user_id, whenever their rows were written (each entry
\* against the next, which orders the whole list).
C14_SortedByWholeMetres ==
    \A h \in Slots :
        LET t == tasks[h]
        IN  /\ \A j \in 1..Len(t.nearby) :
                  t.nearby[j].dist = ExactMM(t, t.nearby[j]) \div 1000
            /\ \A j \in 1..(Len(t.nearby) - 1) :
                  \/ t.nearby[j].dist < t.nearby[j + 1].dist
                  \/ /\ t.nearby[j].dist = t.nearby[j + 1].dist
                     /\ t.nearby[j].uid < t.nearby[j + 1].uid

\* a match list holds an actor, whose row was written during the run, ahead of
\* one of the crowd at the same whole metres, and two matches of the same whole
\* metres whose computed distances differ
C14_Witness ==
    \E h \in Slots :
        LET t == tasks[h]
        IN  /\ \E j \in 1..Len(t.nearby) : \E k \in 1..Len(t.nearby) :
                  /\ j < k
                  /\ t.nearby[j].uid \in Actors /\ t.nearby[k].uid \in Crowd
                  /\ t.nearby[j].dist = t.nearby[k].dist
            /\ \E j \in 1..Len(t.nearby) : \E k \in 1..Len(t.nearby) :
                  /\ t.nearby[j].dist = t.nearby[k].dist
                  /\ ExactMM(t, t.nearby[j]) # ExactMM(t, t.nearby[k])

\* the handlers that hold a computed match list and the lines to show
Serving == {h \in Slots : tasks[h].pc \in {"show", "notify"}}

\* the entries of the match list of t that are not among its lines
Omitted(t) ==
    LET shown == uids(t.lines)
    IN  {k \in 1..Len(t.nearby) : t.nearby[k].uid \notin shown}

\* C15 as claimed: the list shown is the first min(10, number of matches) entries
\* of the match list, never more than 10, and no entry is shown while a match
\* at a strictly smaller computed distance is left out.
C15_ShownNearestTen ==
    \A h \in Serving :
        LET t == tasks[h]
        IN  /\ Len(t.lines) <= SHOW_LIMIT
            /\ Len(t.lines) = Min(SHOW_LIMIT, Len(t.nearby))
            /\ t.lines = SubSeq(t.nearby, 1, Len(t.lines))
            /\ LET om == Omitted(t)
               IN  \A j \in 1..Len(t.lines) : \A k \in om :
                       ExactMM(t, t.nearby[k]) >= ExactMM(t, t.lines[j])

\* C15 as amended: the list shown is the first min(10, number of matches)
\* entries of the match list, never more than 10, and no entry is shown while a
\* match strictly nearer in whole metres is left out.
C15_ShownFirstTen ==
    \A h \in Serving :
        LET t == tasks[h]
        IN  /\ Len(t.lines) <= SHOW_LIMIT
            /\ Len(t.lines) = Min(SHOW_LIMIT, Len(t.nearby))
            /\ t.lines = SubSeq(t.nearby, 1, Len(t.lines))
            /\ LET om == Omitted(t)
               IN  \A j \in 1..Len(t.lines) : \A k \in om :
                       t.nearby[k].dist >= t.lines[j].dist

\* a handler shows ten of more than ten matches, and a match left out is at
\* the whole metres of one shown
C15_Witness ==
    \E h \in Serving :
        LET t == tasks[h]
        IN  /\ Len(t.nearby) > SHOW_LIMIT
            /\ Len(t.lines) = SHOW_LIMIT
            /\ \E j \in 1..Len(t.lines) : \E k \in Omitted(t) :
                  t.nearby[k].dist = t.lines[j].dist

\* C16: with TTL 0 every stored session is in the active set at every moment
\* from its last update on, however long ago that was.
C16_NoTtlNeverExpires ==
    AIR_TTL_MINUTES = 0 =>
        /\ \A r \in air_sessions : \A t \in Times :
              t >= fromisoformat(r.updated_at) =>
                  r \in Range(get_active_sessions(air_sessions, t))
        /\ \A r \in pg_sessions : \A t \in Times :
              t >= r.updated_at => r \in Database_get_active_sessions(t)

\* with TTL 0 the clock has reached its end and a session last updated at the
\* start of the run is stored and active
C16_Witness ==
    /\ AIR_TTL_MINUTES = 0
    /\ now = MaxTime
    /\ \/ \E r \in air_sessions :
             /\ fromisoformat(r.updated_at) = 0
             /\ r \in Range(get_active_sessions(air_sessions, now))
       \/ \E r \in pg_sessions :
             r.updated_at = 0 /\ r \in Database_get_active_sessions(now)

\* latitude within [-90, 90] and longitude within [-180, 180], in micro-degrees
InRange(lat, lon) == Abs(lat) <= 90000000 /\ Abs(lon) <= 180000000

\* C17: a location update whose latitude or longitude is out of range is
\* rejected: the step that receives it changes no session and no daily ping
\* usage, and starts no matching and no notification.
C17_InvalidCoordinatesRejected ==
    [][\A u \in Senders : \A c \in PairCoords :
          (~InRange(c[1], c[2]) /\ OnLocationBegin(u, c[1], c[2]))
              => UNCHANGED <<air_sessions, daily_limits, tasks>>]_vars

\* C18: a query whose radius is <= 0 fails: no handler holds a match list
\* computed with such a radius, and none sends a notification for it.
C18_InvalidRadiusRejected ==
    \A h \in Serving :
        tasks[h].radius_m <= 0 =>
            /\ tasks[h].nearby = <<>>
            /\ Sent(tasks[h].sid) = {}

\* C19, db.py: the upsert_session just made, after the user's session was set
\* inactive or had expired, left the user a session at the coordinates given,
\* in the active set.
C19_UpsertSessionRevives ==
    \A x \in revived :
        \E r \in pg_sessions :
            /\ r.user_id = x.user_id /\ r.lat = x.lat /\ r.lon = x.lon
            /\ r \in Database_get_active_sessions(now)

\* C19, bot.py: an accepted update of a user whose stored session had expired
\* leaves the user a session at the coordinates given, in the active set.
C19_UpsertAirLocationRevives ==
    \A u \in Actors : \A c \in Coords :
        (/\ OnLocationBegin(u, c[1], c[2])
         /\ \E r \in air_sessions :
               r.user_id = u /\ r \notin Range(get_active_sessions(air_sessions, now)))
        => \E r \in air_sessions' :
               /\ r.user_id = u /\ r.lat = c[1] /\ r.lon = c[2]
               /\ r \in Range(get_active_sessions(air_sessions', now'))

\* C19: an upsert that comes after the user's session was set inactive, or had
\* expired, always leaves the user with an active session at the new
\* coordinates.
C19_UpsertReactivates == []C19_UpsertSessionRevives /\ [][C19_UpsertAirLocationRevives]_vars

\* a user has upserted after being set inactive and is in the active set, while
\* another user's session is stored
C19_Witness ==
    \E x \in revived :
        /\ x.after = "stop"
        /\ x.user_id \in {r.user_id : r \in Database_get_active_sessions(now)}
        /\ \E r \in pg_sessions : r.user_id # x.user_id

\* C20, at every set_session_inactive(u): the call removes u's session and
\* nothing else; with no session of u stored it changes nothing; and a second
\* call right after it would change nothing.
C20_SetInactiveStep ==
    \A u \in Senders :
        Database_set_session_inactive(u) =>
            /\ pg_sessions' = {r \in pg_sessions : r.user_id # u}
            /\ pg_users' = pg_users
            /\ (\A r \in pg_sessions : r.user_id # u) => pg_sessions' = pg_sessions
            /\ delete_session_rows(pg_sessions', u) = pg_sessions'

\* C20: set_session_inactive is idempotent and never fails: without a session
\* it is a no-op, twice is the same as once, and the sessions of other users
\* are never changed by it.
C20_DeactivateIdempotent == [][C20_SetInactiveStep]_vars

\* set_session_inactive was called for a user who had no session, while
\* another user's session is stored
C20_Witness ==
    \E x \in stopped :
        /\ x.found = "none"
        /\ x.user_id \in pg_users
        /\ \E r \in pg_sessions : r.user_id # x.user_id

\* C21: set_session_inactive does not delete: after it the user's session row
\* is still stored, with its coordinates, updated_at and expiry as they were.
C21_DeactivateKeepsRow ==
    [][\A u \in Senders :
          Database_set_session_inactive(u) =>
              \A r \in pg_sessions : r.user_id = u => r \in pg_sessions']_vars

\* the stored session of user u, in each store
SessionOf(u) == {r \in air_sessions : r.user_id = u}
PgSessionOf(u) == {r \in pg_sessions : r.user_id = u}

\* C22, one write: a call for user u leaves u with the whole result of that call
\* (an upsert: one row with the call's coordinates and time; a deactivation: no
\* row), and every other user's session as it was.
C22_WriteIsWhole ==
    \A u \in Senders :
        /\ \A c \in Coords :
              OnLocationBegin(u, c[1], c[2]) =>
                  SessionOf(u)' = {[user_id |-> u, lat |-> c[1], lon |-> c[2],
                                    updated_at |-> iso(now)]}
        /\ \A c \in Coords :
              (u \in pg_users /\ Database_upsert_session(u, c[1], c[2], expires_at(now))) =>
                  PgSessionOf(u)' = {[user_id |-> u, lat |-> c[1], lon |-> c[2],
                                      updated_at |-> now, active_until |-> expires_at(now)]}
        /\ Database_set_session_inactive(u) => PgSessionOf(u)' = {}

\* C22, no write lost, none made by another user's call: a session changes only
\* in a step that is a call for its own user.
C22_OnlyOwnCalls ==
    \A u \in Senders :
        /\ SessionOf(u)' # SessionOf(u) =>
               \E c \in Coords : OnLocationBegin(u, c[1], c[2])
        /\ PgSessionOf(u)' # PgSessionOf(u) =>
               \/ \E c \in Coords : Database_upsert_session(u, c[1], c[2], expires_at(now))
               \/ Database_set_session_inactive(u)

\* C22, last writer wins: while the handler of the latest accepted update is in
\* flight, its user's session is the one that update wrote, whatever other
\* handlers of the same user are in flight.
C22_LastWriterWins ==
    \A h \in Slots :
        (tasks[h].pc \in {"show", "notify"} /\ tasks[h].sid = nsub) =>
            \E t \in Times :
                SessionOf(tasks[h].user_id)
                    = {[user_id |-> tasks[h].user_id, lat |-> tasks[h].lat,
                        lon |-> tasks[h].lon, updated_at |-> iso(t)]}

\* C22: concurrent session writes of one user leave the complete result of
\* exactly one of them, the last, never a mix of two and never a lost write, and
\* writes of different users do not touch each other's sessions.
C22_SessionWritesLinearizable ==
    []C22_LastWriterWins /\ [][C22_WriteIsWhole /\ C22_OnlyOwnCalls]_vars

\* two handlers of one user are in flight with different coordinates, and the
\* user's session is the later one's
C22_Witness ==
    \E h1 \in Slots : \E h2 \in Slots :
        /\ tasks[h1].pc \in {"show", "notify"} /\ tasks[h2].pc \in {"show", "notify"}
        /\ tasks[h1].user_id = tasks[h2].user_id
        /\ tasks[h1].sid < tasks[h2].sid
        /\ <<tasks[h1].lat, tasks[h1].lon>> # <<tasks[h2].lat, tasks[h2].lon>>
        /\ \E r \in SessionOf(tasks[h2].user_id) :
              r.lat = tasks[h2].lat /\ r.lon = tasks[h2].lon

\* the moments from now on, before TTL minutes are over
BeforeExpiry(from) == {t \in Times : t >= from /\ t < from + AIR_TTL_MINUTES}

\* C24, one accepted update: the stored session takes the update's coordinates
\* and its time, and counts as active at every moment before TTL after it.
C24_RefreshStep ==
    \A u \in Senders : \A c \in Coords :
        /\ OnLocationBegin(u, c[1], c[2]) =>
               \A r \in SessionOf(u)' :
                   /\ r.lat = c[1] /\ r.lon = c[2] /\ r.updated_at = iso(now)
                   /\ \A t \in BeforeExpiry(now) :
                          r \in Range(get_active_sessions(air_sessions', t))
        /\ (u \in pg_users /\ Database_upsert_session(u, c[1], c[2], expires_at(now))) =>
               \A r \in PgSessionOf(u)' :
                   /\ r.lat = c[1] /\ r.lon = c[2] /\ r.updated_at = now
                   /\ r.active_until = expires_at(now)
                   /\ \A t \in BeforeExpiry(now) : active_until_keeps(r, t)

\* C24, the stored sessions: with a TTL, a session is active at every moment
\* before TTL after its latest update and at none later than that.
C24_ActiveByLatestUpdate ==
    AIR_TTL_MINUTES > 0 =>
        /\ \A r \in air_sessions :
              /\ \A t \in BeforeExpiry(fromisoformat(r.updated_at)) :
                     r \in Range(get_active_sessions(air_sessions, t))
              /\ \A t \in Times :
                     t > fromisoformat(r.updated_at) + AIR_TTL_MINUTES
                         => r \notin Range(get_active_sessions(air_sessions, t))
        /\ \A r \in pg_sessions :
              /\ \A t \in BeforeExpiry(r.updated_at) : active_until_keeps(r, t)
              /\ \A t \in Times :
                     t > r.updated_at + AIR_TTL_MINUTES => ~active_until_keeps(r, t)

\* C24: every accepted update refreshes the whole session, coordinates,
\* updated_at and expiry, so a user who sends again before the expiry stays in
\* the active set until TTL after the latest update, not the first.
C24_RefreshedBySubmission == []C24_ActiveByLatestUpdate /\ [][C24_RefreshStep]_vars

\* with a TTL of one minute, a user whose second update of the day came at
\* minute 1 is in the active set at minute 2, later than TTL after minute 0
C24_Witness ==
    /\ AIR_TTL_MINUTES = 1
    /\ now = 2
    /\ \E r \in air_sessions :
          /\ r.updated_at = iso(1)
          /\ \E d \in daily_limits : d.user_id = r.user_id /\ d.ymd = today_ymd(0) /\ d.value = 2
          /\ r \in Range(get_active_sessions(air_sessions, now))

\* the pings counted for user u on the date of moment t
Used(u, t) == get_daily(today_ymd(t), u, "pings")

\* the largest daily_pings of a plan that u may have held on date ymd: AIR+
\* counts from the date of u's first grant on
LargestHeld(u, ymd) ==
    IF \E sub \in subscriptions : sub.user_id = u /\ today_ymd(sub.created_at) <= ymd
    THEN IF PREMIUM_DAILY_PINGS > FREE_DAILY_PINGS THEN PREMIUM_DAILY_PINGS
         ELSE FREE_DAILY_PINGS
    ELSE FREE_DAILY_PINGS

\* C25, one update: under a plan with daily_pings > 0 an update is accepted only
\* with the day's count below daily_pings, and accepting it adds exactly 1.
C25_AcceptStep ==
    \A u \in Senders : \A c \in PlanCoords :
        (OnLocationBegin(u, c[1], c[2]) /\ get_plan_for_user(u).daily_pings > 0) =>
            /\ Used(u, now) < get_plan_for_user(u).daily_pings
            /\ Used(u, now)' = Used(u, now) + 1

\* C25, the count: a user's count of a day changes only by an accepted update of
\* that user.
C25_CountStep ==
    \A u \in Senders : \A t \in Times :
        Used(u, t)' # Used(u, t) => \E c \in PlanCoords : OnLocationBegin(u, c[1], c[2])

\* C25, the day: no user's count of a day is above the largest daily_pings of
\* the plans the user held.
C25_WithinLargestHeld ==
    \A d \in daily_limits : d.value <= LargestHeld(d.user_id, d.ymd)

\* C25: with daily_pings > 0 an update is accepted only while the day's count
\* is below daily_pings, each accepted update adds 1 to it, and so a user's
\* accepted updates of one day never exceed the largest daily_pings of a plan
\* the user held, however the handlers interleave.
C25_DailyPingLimit == []C25_WithinLargestHeld /\ [][C25_AcceptStep /\ C25_CountStep]_vars

\* user 1 had a second update accepted under AIR+ while the handler of the
\* first was in flight; AIR+ has ended, and the count of 2 is above the free
\* plan's limit
C25_Witness ==
    /\ \A h \in Slots : tasks[h].pc \in {"show", "notify"} /\ tasks[h].user_id = 1
    /\ Used(1, now) = 2
    /\ get_plan_for_user(1).plan_id = "free"
    /\ get_plan_for_user(1).daily_pings = 1
    /\ \E sub \in subscriptions : sub.user_id = 1 /\ sub.until_at[1] < now
    /\ ~ping_allowed(1, now)

\* user u has no stored name or no stored marker
IncompleteProfile(u) ==
    \A r \in users : r.user_id = u => (r.name \in {NULL, ""} \/ r.marker \in {NULL, ""})

\* user u's plan limits the pings of a day and today's count has reached the limit
LimitExhausted(u) ==
    /\ get_plan_for_user(u).daily_pings > 0
    /\ Used(u, now) >= get_plan_for_user(u).daily_pings

\* C26: while a sender's profile is incomplete or the sender's daily limit is
\* used up, no step, a location update of the sender included, creates, moves or
\* refreshes the sender's session, raises the sender's count of pings, starts a
\* handler for the sender or sends a notification about the sender other than
\* from a handler that was already in flight.
C26_RefusedStep ==
    \A u \in Senders :
        (IncompleteProfile(u) \/ LimitExhausted(u)) =>
            /\ SessionOf(u)' = SessionOf(u)
            /\ \A t \in Times : Used(u, t)' = Used(u, t)
            /\ \A h \in Slots :
                  tasks'[h].user_id = u =>
                      tasks[h].user_id = u /\ tasks'[h].sid = tasks[h].sid
            /\ \A m \in outbox' \ outbox :
                  m.from = u => \E h \in Slots : tasks[h].sid = m.sid

C26_RefusedLeavesNoTrace == [][C26_RefusedStep]_vars

\* one actor has a name and no marker and is back in the menu, the other has a
\* session and has used up the day's pings: a location update of either is refused
C26_Witness ==
    \E u \in Actors : \E v \in Actors :
        /\ \E r \in users : r.user_id = u /\ r.name = "Al" /\ r.marker = NULL
        /\ fsm[u] = "none" /\ SessionOf(u) = {}
        /\ fsm[v] = "none" /\ SessionOf(v) # {}
        /\ ~IncompleteProfile(v) /\ LimitExhausted(v)

\* user u has a stored name and a stored marker, neither empty
Complete(u) == ~IncompleteProfile(u)

\* C27, the sessions: every user with a stored session has a complete profile,
\* and every handler shows all of the first ten of its matches.
C27_SessionsHaveProfiles ==
    /\ \A r \in air_sessions : Complete(r.user_id)
    /\ \A h \in Serving :
          Len(tasks[h].lines) = Min(Len(tasks[h].nearby), SHOW_LIMIT)

\* C27, the profiles: no step makes a complete profile incomplete.
C27_CompleteStays ==
    \A u \in Senders : Complete(u) => Complete(u)'

\* C27: after any /start, name and marker inputs, cancels, marker changes and
\* location updates, every user with a stored session has a complete profile,
\* and a profile once complete stays complete, so no match is left out of the
\* list shown for lacking a profile.
C27_SessionImpliesProfile == []C27_SessionsHaveProfiles /\ [][C27_CompleteStays]_vars

\* a user with a session has run /start again and given the name anew; the
\* handler of the other actor's update shows this user as its match
C27_Witness ==
    \E u \in Actors : \E h \in Serving :
        /\ SessionOf(u) # {}
        /\ fsm[u] = "waiting_marker"
        /\ \E r \in users : r.user_id = u /\ r.name = "red hat" /\ r.marker = "Al"
        /\ uids(tasks[h].nearby) = {u}
        /\ Len(tasks[h].lines) = 1

\* the sends of the handler in slot h so far
SentBy(h) == Sent(tasks[h].sid)

\* the first 25 entries of the match list of the handler in slot h
First25(h) == SubSeq(tasks[h].nearby, 1, Min(Len(tasks[h].nearby), NOTIFY_LIMIT))

\* the stored sessions that are active now: all of them without a TTL, else
\* those updated no more than TTL ago
ActiveNow == {r \in air_sessions : AIR_TTL_MINUTES <= 0 \/ ttl_keeps(r, now)}

\* C28, what does not depend on how the distance is measured: the recipients
\* of a submission are among the first 25 of its match list, none is the
\* sender, at most 25 sends are attempted, and none when nobody matched.
C28_AmongFirst25 ==
    \A h \in Serving :
        LET sent == SentBy(h)
        IN  /\ {m.to : m \in sent} \subseteq uids(First25(h))
            /\ \A m \in sent : m.to # tasks[h].user_id /\ m.from = tasks[h].user_id
            /\ Cardinality(sent) <= NOTIFY_LIMIT
            /\ (tasks[h].nearby = <<>> => sent = {})

\* C28 as claimed: the recipients of a submission are among its 25 nearest
\* matches, and every recipient has an active session whose distance from the
\* submitted coordinates is within the sender's plan radius.
C28_NotifiedWithinRadius ==
    /\ C28_AmongFirst25
    /\ \A h \in Serving :
          SentBy(h) # {} =>
              LET active == ActiveNow
              IN  \A m \in SentBy(h) : \E r \in active :
                      /\ r.user_id = m.to
                      /\ haversine_mm(tasks[h].lat, tasks[h].lon, r.lat, r.lon)
                             <= 1000 * tasks[h].radius_m

\* C28 as amended: the same with the distance taken in whole metres, as the
\* match list takes it.
C28_NotifiedWithinWholeMetres ==
    /\ C28_AmongFirst25
    /\ \A h \in Serving :
          SentBy(h) # {} =>
              LET active == ActiveNow
              IN  \A m \in SentBy(h) : \E r \in active :
                      /\ r.user_id = m.to
                      /\ int(haversine_mm(tasks[h].lat, tasks[h].lon, r.lat, r.lon))
                             <= tasks[h].radius_m

\* a notify loop is over that made 25 sends for a list of more than 25 matches,
\* one of them to a user less than a metre beyond the radius
C28_Witness ==
    \E h \in Slots :
        /\ DispatchDone(h)
        /\ Len(tasks[h].nearby) > NOTIFY_LIMIT
        /\ Cardinality(SentBy(h)) = NOTIFY_LIMIT
        /\ \E m \in SentBy(h) : \E r \in air_sessions :
              /\ r.user_id = m.to
              /\ haversine_mm(tasks[h].lat, tasks[h].lon, r.lat, r.lon)
                     > 1000 * tasks[h].radius_m

====
